---- MODULE Spec2Model ----
(***************************************************************************)
(* Account security and session lifecycle of the SocialMediaPlatform       *)
(* backend: the User model (password hashing, lockout, refresh tokens,     *)
(* verification/reset tokens), the auth and user controllers, the protect  *)
(* and rateLimitByUser middleware and the routes that chain them.          *)
(*                                                                         *)
(* One action is one HTTP request handled from its first middleware to its *)
(* response.  The user collection and the Map of the login rate limiter    *)
(* are the persistent state.  Every handler is an operator from the        *)
(* collection and the request to the collection it leaves and the response *)
(* it sends; the action of a route applies it.  streak and fate are        *)
(* history variables.                                                      *)
(*                                                                         *)
(* Time is counted in ticks of 15 minutes.  Dates are positive integers,   *)
(* NoDate stands for an absent Date field.  LOCKOUT_TIME (30 minutes) is 2 *)
(* ticks, the window of the login rate limiter (15 minutes) 1 tick,        *)
(* RESET_PASSWORD_EXPIRE (10 minutes) 1 tick; the lifetimes that span      *)
(* hours or days (verification token, refresh token, access token) are     *)
(* shortened, only their comparison with the clock matters.                *)
(*                                                                         *)
(* Request bodies of the user controller (createUser, updateUser) are      *)
(* limited to username, email and password.  Passwords are drawn from a    *)
(* set of values that all satisfy the password rules; accounts are created *)
(* with the first of them.  A document's _id is the index of its username  *)
(* (any unused value would do).                                            *)
(*                                                                         *)
(* User.getAuthenticatedUser is taken to load password, loginAttempts and  *)
(* lockUntil together with the default fields of the document.             *)
(*                                                                         *)
(* Posts and comments are two further collections; their documents get    *)
(* their _id from one counter (an ObjectId is never given twice).  A post  *)
(* is its title, content, author, likes and views, a comment its content,  *)
(* author, post, parentComment and replyCount.  The register route is also *)
(* modelled in steps (RegisterValidate, RegisterCheck, RegisterCreate), so *)
(* that two sign-ups can overlap between their database calls.             *)
(*                                                                         *)
(* The login and refresh-token routes are also modelled in two steps       *)
(* (LoginRead/LoginWrite, RefreshRead/RefreshWrite), split at the await of *)
(* User.findOne, so that two requests on one account can overlap.          *)
(* updateOne acts on the stored document; user.save of a changed           *)
(* refreshTokens array is subject to Mongoose's version check (__v).       *)
(*                                                                         *)
(* The routes are explored in workloads (SpecLockout, SpecSession, ...),   *)
(* each the requests of one kind of client; Spec is all of them together.  *)
(***************************************************************************)
EXTENDS Integers, FiniteSets, Sequences, TLC

(* ---------------- bounds of the model ---------------- *)
MaxTokens == 4
MaxTime == 4
MaxCount == 6

MaxPosts == 2
MaxObjects == 4
MaxViews == 1

(* ---------------- configuration (.env) ---------------- *)
MAX_LOGIN_ATTEMPTS == 5
LOCKOUT_TIME == 2
RESET_PASSWORD_EXPIRE == 1
EMAIL_VERIFICATION_EXPIRE == 2
REFRESH_TOKEN_TTL == 2
JWT_EXPIRE == 30
LOGIN_RATE_WINDOW == 1
LOGIN_RATE_MAX == 5
JWT_SECRET == "secret"
JWT_ISSUER == "social-media-platform"
JWT_AUDIENCE == "social-media-users"

(* ---------------- value spaces ---------------- *)
Usernames == {"alice", "bob"}
Emails == {"alice@example.com", "bob@example.com"}
Ids == {1, 2}
Ips == {"10.0.0.1"}
Clients == {"c1", "c2"}
Idle == [op |-> "none"]
Passwords == {1, 2}
InitialPasswords == {1}
Tokens == 1..MaxTokens
Titles == {"First title", "Second title"}
Contents == {"Some content."}
CommentTexts == {"A comment."}
ObjectIds == 1..MaxObjects
NotGiven == "(undefined)"
NoComment == 0
NoDate == 0
NoToken == 0
NoUser == 0

Undefined == [alg |-> "undefined", of |-> 0]

\* bcrypt.hash: a one-way digest of the plaintext (the salt is left out)
bcryptHash(plain) == [alg |-> "bcrypt", of |-> plain]

\* the value a request body carries for password, before any hashing
Plaintext(plain) == [alg |-> "plain", of |-> plain]

\* crypto.createHash('sha256').update(t).digest('hex')
sha256(t) == [alg |-> "sha256", of |-> t]

\* methods.matchPassword: bcrypt.compare is false for what is no bcrypt digest
matchPassword(user, enteredPassword) ==
    user.password = bcryptHash(enteredPassword)

VARIABLES
    users,      \* the user collection: _id -> document
    now,        \* Date.now()
    nextToken,  \* the next value crypto.randomBytes produces
    inflight,   \* per client: the request suspended between two database calls
    attempts,   \* the Map of the rate limiter of the login route: key -> entry
    posts,      \* the post collection: _id -> document
    comments,   \* the comment collection: _id -> document
    nextObjectId, \* the next _id given to a post or a comment
    streak,     \* per account: consecutive wrong-password logins (see NextStreak)
    fate        \* per cleartext token: what became of it

vars == <<users, now, nextToken, inflight, attempts, posts, comments,
          nextObjectId, streak, fate>>

\* a document as User.create builds it from username, email and password
NewUser(username, email, password) ==
    [ username |-> username,
      email |-> email,
      password |-> password,
      loginAttempts |-> 0,
      lockUntil |-> NoDate,
      refreshTokens |-> {},
      emailVerificationToken |-> Undefined,
      emailVerificationExpire |-> NoDate,
      resetPasswordToken |-> Undefined,
      resetPasswordExpire |-> NoDate,
      isActive |-> TRUE,
      emailVerified |-> FALSE ]

\* the _id given to a new document
NewId(db, username) ==
    LET preferred == IF username = "alice" THEN 1 ELSE 2 IN
    IF preferred \notin DOMAIN db THEN preferred
    ELSE CHOOSE i \in Ids : i \notin DOMAIN db

\* pre('save'): the password is hashed when it was modified
preSaveHash(password) ==
    IF password.alg = "plain" THEN bcryptHash(password.of) ELSE password

\* a variant of isLocked for which a lock never runs out
isLockedForever(user, t) == user.lockUntil # NoDate

\* virtual isLocked
isLocked(user, t) == user.lockUntil # NoDate /\ user.lockUntil > t

\* User.findOne({ $or: [{ username: identifier }, { email: identifier }] })
FindByIdentifier(db, identifier) ==
    {i \in DOMAIN db : db[i].username = identifier \/ db[i].email = identifier}

FindByUsername(db, username) == {i \in DOMAIN db : db[i].username = username}
FindByEmail(db, email) == {i \in DOMAIN db : db[i].email = email}

\* the failed attempts counted on all accounts together
RECURSIVE SumAttempts(_, _)
SumAttempts(db, ids) ==
    IF ids = {} THEN 0
    ELSE LET i == CHOOSE j \in ids : TRUE
         IN db[i].loginAttempts + SumAttempts(db, ids \ {i})

TotalAttempts(db) == SumAttempts(db, DOMAIN db)

\* methods.getSignedJwtToken
getSignedJwtToken(id, t) ==
    [ id |-> id, iss |-> JWT_ISSUER, aud |-> JWT_AUDIENCE,
      key |-> JWT_SECRET, exp |-> t + JWT_EXPIRE ]

\* methods.generateRefreshToken: the array after the push of token rt at time t
generateRefreshToken(tokens, rt, t) ==
    tokens \cup {[token |-> rt, expiresAt |-> t + REFRESH_TOKEN_TTL]}

\* a variant of removeRefreshToken that leaves the array as it is
removeNoRefreshToken(tokens, tokenToRemove) == tokens

\* methods.removeRefreshToken
removeRefreshToken(tokens, tokenToRemove) ==
    {r \in tokens : r.token # tokenToRemove}

\* a variant of cleanExpiredTokens that removes nothing
cleanExpiredTokensKeepsAll(tokens, t) == tokens

\* methods.cleanExpiredTokens
cleanExpiredTokens(tokens, t) == {r \in tokens : r.expiresAt > t}

\* methods.getEmailVerificationToken: digest and expiry written on the document
getEmailVerificationToken(user, vt, t) ==
    [user EXCEPT !.emailVerificationToken = sha256(vt),
                 !.emailVerificationExpire = t + EMAIL_VERIFICATION_EXPIRE]

\* methods.getResetPasswordToken
getResetPasswordToken(user, rt, t) ==
    [user EXCEPT !.resetPasswordToken = sha256(rt),
                 !.resetPasswordExpire = t + RESET_PASSWORD_EXPIRE]

\* a variant of incLoginAttempts that keeps counting after an expired lock
incLoginAttemptsKeepsCount(user, t) ==
    IF user.lockUntil # NoDate /\ user.lockUntil < t
    THEN [user EXCEPT !.lockUntil = NoDate, !.loginAttempts = @ + 1]
    ELSE IF user.loginAttempts + 1 >= MAX_LOGIN_ATTEMPTS
         THEN [user EXCEPT !.loginAttempts = @ + 1,
                           !.lockUntil = t + LOCKOUT_TIME]
         ELSE [user EXCEPT !.loginAttempts = @ + 1]

\* a variant of incLoginAttempts that locks one attempt later
incLoginAttemptsLate(user, t) ==
    IF user.lockUntil # NoDate /\ user.lockUntil < t
    THEN [user EXCEPT !.lockUntil = NoDate, !.loginAttempts = 1]
    ELSE IF user.loginAttempts + 1 > MAX_LOGIN_ATTEMPTS
         THEN [user EXCEPT !.loginAttempts = @ + 1,
                           !.lockUntil = t + LOCKOUT_TIME]
         ELSE [user EXCEPT !.loginAttempts = @ + 1]

\* a variant of incLoginAttempts that locks one attempt earlier
incLoginAttemptsEarly(user, t) ==
    IF user.lockUntil # NoDate /\ user.lockUntil < t
    THEN [user EXCEPT !.lockUntil = NoDate, !.loginAttempts = 1]
    ELSE IF user.loginAttempts + 2 >= MAX_LOGIN_ATTEMPTS
         THEN [user EXCEPT !.loginAttempts = @ + 1,
                           !.lockUntil = t + LOCKOUT_TIME]
         ELSE [user EXCEPT !.loginAttempts = @ + 1]

\* a variant of incLoginAttempts that leaves a running lock as it is
incLoginAttemptsOnce(user, t) ==
    IF user.lockUntil # NoDate /\ user.lockUntil < t
    THEN [user EXCEPT !.lockUntil = NoDate, !.loginAttempts = 1]
    ELSE IF user.loginAttempts + 1 >= MAX_LOGIN_ATTEMPTS /\ ~isLocked(user, t)
         THEN [user EXCEPT !.loginAttempts = @ + 1,
                           !.lockUntil = t + LOCKOUT_TIME]
         ELSE [user EXCEPT !.loginAttempts = @ + 1]

\* methods.incLoginAttempts: the document after the updateOne it sends
incLoginAttempts(user, t) ==
    IF user.lockUntil # NoDate /\ user.lockUntil < t
    THEN [user EXCEPT !.lockUntil = NoDate, !.loginAttempts = 1]
    ELSE IF user.loginAttempts + 1 >= MAX_LOGIN_ATTEMPTS
         THEN [user EXCEPT !.loginAttempts = @ + 1,
                           !.lockUntil = t + LOCKOUT_TIME]
         ELSE [user EXCEPT !.loginAttempts = @ + 1]

\* a variant of getAuthenticatedUser that does not count the logins it
\* refuses for a lock
getAuthenticatedUserNoCount(db, identifier, password, t) ==
    LET found == FindByIdentifier(db, identifier) IN
    IF found = {}
    THEN [users |-> db, uid |-> NoUser, reason |-> "USER_NOT_FOUND"]
    ELSE LET id == CHOOSE i \in found : TRUE
             user == db[id]
         IN IF isLocked(user, t)
            THEN [users |-> db, uid |-> NoUser, reason |-> "ACCOUNT_LOCKED"]
            ELSE IF matchPassword(user, password)
            THEN [ users |-> IF user.loginAttempts > 0
                             THEN [db EXCEPT ![id].loginAttempts = 0,
                                             ![id].lockUntil = NoDate]
                             ELSE db,
                   uid |-> id, reason |-> "null" ]
            ELSE [ users |-> [db EXCEPT ![id] = incLoginAttempts(user, t)],
                   uid |-> NoUser, reason |-> "INVALID_PASSWORD" ]

\* a variant of getAuthenticatedUser that compares the password before it
\* looks at the lock
getAuthenticatedUserPasswordFirst(db, identifier, password, t) ==
    LET found == FindByIdentifier(db, identifier) IN
    IF found = {}
    THEN [users |-> db, uid |-> NoUser, reason |-> "USER_NOT_FOUND"]
    ELSE LET id == CHOOSE i \in found : TRUE
             user == db[id]
         IN IF ~matchPassword(user, password)
            THEN [ users |-> [db EXCEPT ![id] = incLoginAttempts(user, t)],
                   uid |-> NoUser, reason |-> "INVALID_PASSWORD" ]
            ELSE IF isLocked(user, t)
            THEN [ users |-> [db EXCEPT ![id] = incLoginAttempts(user, t)],
                   uid |-> NoUser, reason |-> "ACCOUNT_LOCKED" ]
            ELSE [ users |-> IF user.loginAttempts > 0
                             THEN [db EXCEPT ![id].loginAttempts = 0,
                                             ![id].lockUntil = NoDate]
                             ELSE db,
                   uid |-> id, reason |-> "null" ]

\* statics.getAuthenticatedUser: the collection it leaves, the _id of the user
\* it returns (NoUser for null) and the reason
getAuthenticatedUser(db, identifier, password, t) ==
    LET found == FindByIdentifier(db, identifier) IN
    IF found = {}
    THEN [users |-> db, uid |-> NoUser, reason |-> "USER_NOT_FOUND"]
    ELSE LET id == CHOOSE i \in found : TRUE
             user == db[id]
         IN IF isLocked(user, t)
            THEN [ users |-> [db EXCEPT ![id] = incLoginAttempts(user, t)],
                   uid |-> NoUser, reason |-> "ACCOUNT_LOCKED" ]
            ELSE IF matchPassword(user, password)
            THEN [ users |-> IF user.loginAttempts > 0
                             THEN [db EXCEPT ![id].loginAttempts = 0,
                                             ![id].lockUntil = NoDate]
                             ELSE db,
                   uid |-> id, reason |-> "null" ]
            ELSE [ users |-> [db EXCEPT ![id] = incLoginAttempts(user, t)],
                   uid |-> NoUser, reason |-> "INVALID_PASSWORD" ]

\* controller login: rt is the refresh token generateRefreshToken draws
login(db, identifier, password, rt, t) ==
    LET result == getAuthenticatedUser(db, identifier, password, t) IN
    IF result.uid = NoUser
    THEN [ users |-> result.users, status |-> 401, reason |-> result.reason,
           uid |-> NoUser, refreshToken |-> NoToken, accessToken |-> FALSE ]
    ELSE [ users |-> [result.users EXCEPT ![result.uid].refreshTokens =
                        generateRefreshToken(cleanExpiredTokens(@, t), rt, t)],
           status |-> 200, reason |-> result.reason, uid |-> result.uid,
           refreshToken |-> rt, accessToken |-> TRUE ]

\* the version check of user.save (the schema keeps Mongoose's versionKey
\* __v): a save that sets the whole refreshTokens array is sent with the __v
\* of the document read as a condition and fails with a VersionError when the
\* stored __v differs.  __v is incremented by exactly the saves that change
\* the array, and a token is never stored twice, so the stored __v is the __v
\* read exactly when the stored array is the array read.
versionMatches(stored, read) == stored.refreshTokens = read.refreshTokens

\* a variant of updateOneLoginAttempts that locks one attempt later
updateOneLoginAttemptsLate(stored, read, t) ==
    IF read.lockUntil # NoDate /\ read.lockUntil < t
    THEN [stored EXCEPT !.lockUntil = NoDate, !.loginAttempts = 1]
    ELSE IF read.loginAttempts + 1 > MAX_LOGIN_ATTEMPTS
         THEN [stored EXCEPT !.loginAttempts = @ + 1,
                             !.lockUntil = t + LOCKOUT_TIME]
         ELSE [stored EXCEPT !.loginAttempts = @ + 1]

\* incLoginAttempts as the database sees it: the document read decides on the
\* update, this.updateOne applies it to the document stored ($inc adds to the
\* stored counter)
updateOneLoginAttempts(stored, read, t) ==
    IF read.lockUntil # NoDate /\ read.lockUntil < t
    THEN [stored EXCEPT !.lockUntil = NoDate, !.loginAttempts = 1]
    ELSE IF read.loginAttempts + 1 >= MAX_LOGIN_ATTEMPTS
         THEN [stored EXCEPT !.loginAttempts = @ + 1,
                             !.lockUntil = t + LOCKOUT_TIME]
         ELSE [stored EXCEPT !.loginAttempts = @ + 1]

\* controller login from the return of User.findOne on: read is the document
\* findOne returned for _id id, db the collection at the time of the writes.
\* The updateOne of getAuthenticatedUser is sent first.  user.save then
\* pushes the new token onto the stored array when cleanExpiredTokens left
\* the array read as it was, and otherwise sets the filtered array under the
\* version check; a VersionError is answered 500 by the error handler.
loginWrite(db, id, read, password, rt, t) ==
    IF isLocked(read, t)
    THEN [ users |-> [db EXCEPT ![id] = updateOneLoginAttempts(@, read, t)],
           status |-> 401, reason |-> "ACCOUNT_LOCKED", uid |-> NoUser,
           refreshToken |-> NoToken, accessToken |-> FALSE ]
    ELSE IF ~matchPassword(read, password)
    THEN [ users |-> [db EXCEPT ![id] = updateOneLoginAttempts(@, read, t)],
           status |-> 401, reason |-> "INVALID_PASSWORD", uid |-> NoUser,
           refreshToken |-> NoToken, accessToken |-> FALSE ]
    ELSE LET reset == [db EXCEPT
                         ![id].loginAttempts =
                             IF read.loginAttempts > 0 THEN 0 ELSE @,
                         ![id].lockUntil =
                             IF read.loginAttempts > 0 THEN NoDate ELSE @]
             kept == cleanExpiredTokens(read.refreshTokens, t)
         IN IF kept = read.refreshTokens
            THEN [ users |-> [reset EXCEPT ![id].refreshTokens =
                                generateRefreshToken(@, rt, t)],
                   status |-> 200, reason |-> "null", uid |-> id,
                   refreshToken |-> rt, accessToken |-> TRUE ]
            ELSE IF versionMatches(db[id], read)
            THEN [ users |-> [reset EXCEPT ![id].refreshTokens =
                                generateRefreshToken(kept, rt, t)],
                   status |-> 200, reason |-> "null", uid |-> id,
                   refreshToken |-> rt, accessToken |-> TRUE ]
            ELSE [ users |-> reset, status |-> 500, reason |-> "null",
                   uid |-> NoUser, refreshToken |-> NoToken,
                   accessToken |-> FALSE ]

\* the fields validateRegister reports as taken (its custom validators run
\* User.findOne({ username }) and User.findOne({ email }))
TakenFields(db, username, email) ==
    (IF FindByUsername(db, username) # {} THEN {"username"} ELSE {})
      \cup (IF FindByEmail(db, email) # {} THEN {"email"} ELSE {})

\* a variant of registerCreate for a collection without unique indexes
registerCreateNoIndex(db, username, email, password, mailOk, vt, rt, t) ==
    LET id == NewId(db, username)
        created == NewUser(username, email, preSaveHash(Plaintext(password)))
        withVt == getEmailVerificationToken(created, vt, t)
    IN IF mailOk
       THEN [ users |-> db @@ (id :>
                  [withVt EXCEPT !.refreshTokens =
                       generateRefreshToken(@, rt, t)]),
              status |-> 201, uid |-> id, fields |-> {},
              refreshToken |-> rt, accessToken |-> TRUE ]
       ELSE [ users |-> db @@ (id :>
                  [withVt EXCEPT !.emailVerificationToken = Undefined,
                                 !.emailVerificationExpire = NoDate]),
              status |-> 500, uid |-> id, fields |-> {},
              refreshToken |-> NoToken, accessToken |-> FALSE ]

\* a variant of registerCreate whose catch block leaves the verification
\* token on the document
registerCreateNoRollback(db, username, email, password, mailOk, vt, rt, t) ==
    IF FindByUsername(db, username) # {} \/ FindByEmail(db, email) # {}
    THEN [ users |-> db, status |-> 400, uid |-> NoUser, fields |-> {},
           refreshToken |-> NoToken, accessToken |-> FALSE ]
    ELSE LET id == NewId(db, username)
             created == NewUser(username, email,
                                preSaveHash(Plaintext(password)))
             withVt == getEmailVerificationToken(created, vt, t)
         IN IF mailOk
            THEN [ users |-> db @@ (id :>
                       [withVt EXCEPT !.refreshTokens =
                            generateRefreshToken(@, rt, t)]),
                   status |-> 201, uid |-> id, fields |-> {},
                   refreshToken |-> rt, accessToken |-> TRUE ]
            ELSE [ users |-> db @@ (id :> withVt),
                   status |-> 500, uid |-> id, fields |-> {},
                   refreshToken |-> NoToken, accessToken |-> FALSE ]

\* controller register from User.create on: the unique indexes of username and
\* email refuse a duplicate (the error reaches the error handler), else the
\* document is created, the verification token written and mailed; vt and rt
\* are the verification and refresh tokens drawn, mailOk whether sendEmail
\* resolves
registerCreate(db, username, email, password, mailOk, vt, rt, t) ==
    IF FindByUsername(db, username) # {} \/ FindByEmail(db, email) # {}
    THEN [ users |-> db, status |-> 400, uid |-> NoUser, fields |-> {},
           refreshToken |-> NoToken, accessToken |-> FALSE ]
    ELSE LET id == NewId(db, username)
             created == NewUser(username, email,
                                preSaveHash(Plaintext(password)))
             withVt == getEmailVerificationToken(created, vt, t)
         IN IF mailOk
            THEN [ users |-> db @@ (id :>
                       [withVt EXCEPT !.refreshTokens =
                            generateRefreshToken(@, rt, t)]),
                   status |-> 201, uid |-> id, fields |-> {},
                   refreshToken |-> rt, accessToken |-> TRUE ]
            ELSE [ users |-> db @@ (id :>
                       [withVt EXCEPT !.emailVerificationToken = Undefined,
                                      !.emailVerificationExpire = NoDate]),
                   status |-> 500, uid |-> id, fields |-> {},
                   refreshToken |-> NoToken, accessToken |-> FALSE ]

\* controller register up to User.create: the account it finds with the
\* username or the email, and the field its error then names
registerCheck(db, username, email) ==
    LET found == FindByUsername(db, username) \cup FindByEmail(db, email) IN
    IF found = {} THEN [status |-> 0, fields |-> {}]
    ELSE LET existingUser == db[CHOOSE i \in found : TRUE] IN
         [ status |-> 400,
           fields |-> IF existingUser.email = email THEN {"email"}
                      ELSE {"username"} ]

\* controller register behind validateRegister, run without interruption
register(db, username, email, password, mailOk, vt, rt, t) ==
    IF TakenFields(db, username, email) # {}
    THEN \* the custom validators of validateRegister report the duplicate
         [ users |-> db, status |-> 400, uid |-> NoUser,
           fields |-> TakenFields(db, username, email),
           refreshToken |-> NoToken, accessToken |-> FALSE ]
    ELSE registerCreate(db, username, email, password, mailOk, vt, rt, t)

\* ---------------- middleware ----------------

\* a variant of rateLimitByUser that admits one request more in each window
rateLimitByUserLax(map, windowMs, max, key, t) ==
    IF key \notin DOMAIN map
    THEN [ attempts |-> map @@ (key :> [count |-> 1, resetTime |-> t + windowMs]),
           pass |-> TRUE ]
    ELSE IF t > map[key].resetTime
    THEN [ attempts |-> [map EXCEPT ![key] =
                            [count |-> 1, resetTime |-> t + windowMs]],
           pass |-> TRUE ]
    ELSE IF map[key].count > max
    THEN [attempts |-> map, pass |-> FALSE]
    ELSE [attempts |-> [map EXCEPT ![key].count = @ + 1], pass |-> TRUE]

\* the middleware rateLimitByUser(windowMs, max) returns, run for the key
\* (req.user.id, or req.ip where no user is set) at time t: the Map it leaves
\* and whether it calls next() without an error
rateLimitByUser(map, windowMs, max, key, t) ==
    IF key \notin DOMAIN map
    THEN [ attempts |-> map @@ (key :> [count |-> 1, resetTime |-> t + windowMs]),
           pass |-> TRUE ]
    ELSE IF t > map[key].resetTime
    THEN [ attempts |-> [map EXCEPT ![key] =
                            [count |-> 1, resetTime |-> t + windowMs]],
           pass |-> TRUE ]
    ELSE IF map[key].count >= max
    THEN [attempts |-> map, pass |-> FALSE]
    ELSE [attempts |-> [map EXCEPT ![key].count = @ + 1], pass |-> TRUE]

\* access tokens and the protect middleware

\* a token a client may present for account id at time t: the one the server
\* signs, or one that differs from it in a single respect
PresentedJwts(t) ==
    UNION {
      LET good == getSignedJwtToken(id, t) IN
      { good,
        [good EXCEPT !.iss = "another-issuer"],
        [good EXCEPT !.aud = "another-audience"],
        [good EXCEPT !.key = "another-secret"],
        [good EXCEPT !.exp = t] }
      : id \in Ids }

\* jwt.verify(token, process.env.JWT_SECRET): no issuer or audience is passed
jwtVerify(jwt, secret, t) ==
    IF jwt.key # secret THEN "JsonWebTokenError"
    ELSE IF t >= jwt.exp THEN "TokenExpiredError"
    ELSE "ok"

\* a variant of protect that turns away the accounts without a session, that
\* is, makes a logout-all revoke the access tokens
protectNeedsSession(db, jwt, t) ==
    IF jwtVerify(jwt, JWT_SECRET, t) # "ok" THEN 401
    ELSE IF jwt.id \notin DOMAIN db THEN 404
    ELSE IF ~db[jwt.id].isActive THEN 401
    ELSE IF db[jwt.id].refreshTokens = {} THEN 401
    ELSE 0

\* middleware protect: the status it answers with, 0 when it calls next()
protect(db, jwt, t) ==
    IF jwtVerify(jwt, JWT_SECRET, t) # "ok" THEN 401
    ELSE IF jwt.id \notin DOMAIN db THEN 404
    ELSE IF ~db[jwt.id].isActive THEN 401
    ELSE 0

Denied(db, status) == [users |-> db, status |-> status]

\* controller getMe behind protect
getMe(db, jwt, t) ==
    IF protect(db, jwt, t) # 0 THEN Denied(db, protect(db, jwt, t))
    ELSE [users |-> db, status |-> 200]

\* a variant of logout that removes the token from whichever account holds it
logoutEverywhere(db, jwt, refreshToken, t) ==
    IF protect(db, jwt, t) # 0 THEN Denied(db, protect(db, jwt, t))
    ELSE [ users |-> IF refreshToken # NoToken
                     THEN [i \in DOMAIN db |->
                             [db[i] EXCEPT !.refreshTokens =
                                removeRefreshToken(@, refreshToken)]]
                     ELSE db,
           status |-> 200 ]

\* controller logout behind protect
logout(db, jwt, refreshToken, t) ==
    IF protect(db, jwt, t) # 0 THEN Denied(db, protect(db, jwt, t))
    ELSE [ users |-> IF refreshToken # NoToken
                     THEN [db EXCEPT ![jwt.id].refreshTokens =
                              removeRefreshToken(@, refreshToken)]
                     ELSE db,
           status |-> 200 ]

\* a variant of logoutAll that answers without emptying the array
logoutAllKeepsTokens(db, jwt, t) ==
    IF protect(db, jwt, t) # 0 THEN Denied(db, protect(db, jwt, t))
    ELSE [users |-> db, status |-> 200]

\* controller logoutAll behind protect
logoutAll(db, jwt, t) ==
    IF protect(db, jwt, t) # 0 THEN Denied(db, protect(db, jwt, t))
    ELSE [users |-> [db EXCEPT ![jwt.id].refreshTokens = {}], status |-> 200]

\* a variant of updatePassword that also ends the sessions of the account
updatePasswordEndsSessions(db, jwt, currentPassword, newPassword, t) ==
    IF protect(db, jwt, t) # 0 THEN Denied(db, protect(db, jwt, t))
    ELSE IF ~matchPassword(db[jwt.id], currentPassword)
    THEN [users |-> db, status |-> 401]
    ELSE [ users |-> [db EXCEPT ![jwt.id].password =
                         preSaveHash(Plaintext(newPassword)),
                                ![jwt.id].refreshTokens = {}],
           status |-> 200 ]

\* controller updatePassword behind protect and validatePasswordUpdate
updatePassword(db, jwt, currentPassword, newPassword, t) ==
    IF protect(db, jwt, t) # 0 THEN Denied(db, protect(db, jwt, t))
    ELSE IF ~matchPassword(db[jwt.id], currentPassword)
    THEN [users |-> db, status |-> 401]
    ELSE [ users |-> [db EXCEPT ![jwt.id].password =
                         preSaveHash(Plaintext(newPassword))],
           status |-> 200 ]

\* controller resendVerification behind protect: a failed delivery answers 500
\* and leaves the new digest stored
resendVerification(db, jwt, mailOk, vt, t) ==
    IF protect(db, jwt, t) # 0 THEN Denied(db, protect(db, jwt, t))
    ELSE IF db[jwt.id].emailVerified THEN [users |-> db, status |-> 400]
    ELSE [ users |-> [db EXCEPT ![jwt.id] =
                         getEmailVerificationToken(@, vt, t)],
           status |-> IF mailOk THEN 200 ELSE 500 ]

\* ---------------- verification and reset tokens ----------------

\* controller forgotPassword behind validateEmail
forgotPassword(db, email, mailOk, rt, t) ==
    IF FindByEmail(db, email) = {} THEN [users |-> db, status |-> 404]
    ELSE LET id == CHOOSE i \in FindByEmail(db, email) : TRUE
             issued == getResetPasswordToken(db[id], rt, t)
         IN IF mailOk
            THEN [users |-> [db EXCEPT ![id] = issued], status |-> 200]
            ELSE [ users |-> [db EXCEPT ![id] =
                       [issued EXCEPT !.resetPasswordToken = Undefined,
                                      !.resetPasswordExpire = NoDate]],
                   status |-> 500 ]

\* the parameters express takes from the path of each route
ResetPasswordParams(t) == [resettoken |-> t]
VerifyEmailParams(t) == [token |-> t]

\* validateToken: param('token').isLength({ min: 20 }) leaves no error; a
\* parameter the route does not define reads as the empty string, the tokens
\* issued are 40 characters long
validateToken(params) ==
    IF "token" \in DOMAIN params THEN params.token # NoToken ELSE FALSE

\* User.findOne({ resetPasswordToken, resetPasswordExpire: { $gt: Date.now() } })
FindByResetToken(db, digest, t) ==
    {i \in DOMAIN db : /\ db[i].resetPasswordToken = digest
                       /\ db[i].resetPasswordExpire # NoDate
                       /\ db[i].resetPasswordExpire > t}

\* User.findOne({ emailVerificationToken, emailVerificationExpire: { $gt: ... } })
FindByVerificationToken(db, digest, t) ==
    {i \in DOMAIN db : /\ db[i].emailVerificationToken = digest
                       /\ db[i].emailVerificationExpire # NoDate
                       /\ db[i].emailVerificationExpire > t}

\* a variant of resetPassword that leaves the refresh tokens stored
resetPasswordKeepsSessions(db, errorsEmpty, resettoken, password, t) ==
    LET found == FindByResetToken(db, sha256(resettoken), t) IN
    IF ~errorsEmpty THEN [users |-> db, status |-> 400, uid |-> NoUser]
    ELSE IF found = {} THEN [users |-> db, status |-> 400, uid |-> NoUser]
    ELSE LET id == CHOOSE i \in found : TRUE IN
         [ users |-> [db EXCEPT ![id] =
                        [@ EXCEPT !.password = preSaveHash(Plaintext(password)),
                                  !.resetPasswordToken = Undefined,
                                  !.resetPasswordExpire = NoDate]],
           status |-> 200, uid |-> id ]

\* controller resetPassword; errorsEmpty is validationResult(req).isEmpty()
resetPassword(db, errorsEmpty, resettoken, password, t) ==
    LET found == FindByResetToken(db, sha256(resettoken), t) IN
    IF ~errorsEmpty THEN [users |-> db, status |-> 400, uid |-> NoUser]
    ELSE IF found = {} THEN [users |-> db, status |-> 400, uid |-> NoUser]
    ELSE LET id == CHOOSE i \in found : TRUE IN
         [ users |-> [db EXCEPT ![id] =
                        [@ EXCEPT !.password = preSaveHash(Plaintext(password)),
                                  !.resetPasswordToken = Undefined,
                                  !.resetPasswordExpire = NoDate,
                                  !.refreshTokens = {}]],
           status |-> 200, uid |-> id ]

\* PUT /reset-password/:resettoken: validateToken, validatePasswordReset (which
\* the passwords drawn pass), then resetPassword
resetPasswordRoute(db, resettoken, password, t) ==
    resetPassword(db, validateToken(ResetPasswordParams(resettoken)),
                  resettoken, password, t)

\* a variant of verifyEmail that leaves digest and expiry stored
verifyEmailKeepsToken(db, token, t) ==
    LET found == FindByVerificationToken(db, sha256(token), t) IN
    IF found = {} THEN [users |-> db, status |-> 400, uid |-> NoUser]
    ELSE LET id == CHOOSE i \in found : TRUE IN
         [ users |-> [db EXCEPT ![id].emailVerified = TRUE],
           status |-> 200, uid |-> id ]

\* controller verifyEmail (it does not read the result of validateToken)
verifyEmail(db, token, t) ==
    LET found == FindByVerificationToken(db, sha256(token), t) IN
    IF found = {} THEN [users |-> db, status |-> 400, uid |-> NoUser]
    ELSE LET id == CHOOSE i \in found : TRUE IN
         [ users |-> [db EXCEPT ![id] =
                        [@ EXCEPT !.emailVerified = TRUE,
                                  !.emailVerificationToken = Undefined,
                                  !.emailVerificationExpire = NoDate]],
           status |-> 200, uid |-> id ]

\* ---------------- refresh tokens ----------------

\* User.findOne({ 'refreshTokens.token': refreshToken,
\*                'refreshTokens.expiresAt': { $gt: new Date() } }):
\* each condition is met by some element of the array, not by the same one
FindByRefreshToken(db, token, t) ==
    {i \in DOMAIN db : /\ \E r \in db[i].refreshTokens : r.token = token
                       /\ \E r \in db[i].refreshTokens : r.expiresAt > t}

\* controller refreshToken: newRt is the token generateRefreshToken draws
refreshToken(db, token, newRt, t) ==
    LET found == FindByRefreshToken(db, token, t) IN
    IF token = NoToken \/ found = {}
    THEN [ users |-> db, status |-> 401, uid |-> NoUser,
           refreshToken |-> NoToken, accessToken |-> FALSE ]
    ELSE LET id == CHOOSE i \in found : TRUE IN
         [ users |-> [db EXCEPT ![id].refreshTokens =
                        generateRefreshToken(removeRefreshToken(@, token),
                                             newRt, t)],
           status |-> 200, uid |-> id,
           refreshToken |-> newRt, accessToken |-> TRUE ]

\* a variant of refreshWrite whose save is sent without the version check
refreshWriteUnversioned(db, id, read, token, newRt, t) ==
    [ users |-> [db EXCEPT ![id].refreshTokens =
                   generateRefreshToken(
                       removeRefreshToken(read.refreshTokens, token),
                       newRt, t)],
      status |-> 200, uid |-> id,
      refreshToken |-> newRt, accessToken |-> TRUE ]

\* controller refreshToken from the return of User.findOne on: read is the
\* document findOne returned for _id id, db the collection at the time of
\* user.save.  removeRefreshToken assigns the array without the token
\* presented, so the save sets the whole array under the version check; a
\* VersionError is answered 500 by the error handler and nothing is written.
refreshWrite(db, id, read, token, newRt, t) ==
    IF versionMatches(db[id], read)
    THEN [ users |-> [db EXCEPT ![id].refreshTokens =
                        generateRefreshToken(
                            removeRefreshToken(read.refreshTokens, token),
                            newRt, t)],
           status |-> 200, uid |-> id,
           refreshToken |-> newRt, accessToken |-> TRUE ]
    ELSE [ users |-> db, status |-> 500, uid |-> NoUser,
           refreshToken |-> NoToken, accessToken |-> FALSE ]

\* ---------------- user controller ----------------

\* controller createUser: User.create(req.body); a duplicate key reaches the
\* error handler
createUser(db, username, email, password) ==
    IF FindByUsername(db, username) # {} \/ FindByEmail(db, email) # {}
    THEN [users |-> db, status |-> 400]
    ELSE [ users |-> db @@ (NewId(db, username) :>
               NewUser(username, email, preSaveHash(Plaintext(password)))),
           status |-> 201 ]

\* controller updateUser: User.findByIdAndUpdate(id, req.body) writes the body
\* as it is, no save hook runs
updateUser(db, id, password) ==
    IF id \notin DOMAIN db THEN [users |-> db, status |-> 404]
    ELSE [ users |-> [db EXCEPT ![id].password = Plaintext(password)],
           status |-> 200 ]

\* a variant of updateUserEmail for a collection without unique indexes
updateUserEmailNoIndex(db, id, email) ==
    IF id \notin DOMAIN db THEN [users |-> db, status |-> 404]
    ELSE [users |-> [db EXCEPT ![id].email = email], status |-> 200]

\* controller updateUser with an email in the body: the unique index refuses
\* the address of another document
updateUserEmail(db, id, email) ==
    IF id \notin DOMAIN db THEN [users |-> db, status |-> 404]
    ELSE IF \E j \in DOMAIN db \ {id} : db[j].email = email
    THEN [users |-> db, status |-> 400]
    ELSE [users |-> [db EXCEPT ![id].email = email], status |-> 200]

\* controller deleteUser
deleteUser(db, id) ==
    IF id \notin DOMAIN db THEN [users |-> db, status |-> 404]
    ELSE [users |-> [db EXCEPT ![id].isActive = FALSE], status |-> 200]

\* ---------------- post controller ----------------

\* what a handler behind router.use(protect) answers when protect refuses
Refused(pdb, status) == [posts |-> pdb, status |-> status, error |-> "protect"]

\* Post.create with the defaults of the schema
NewPost(title, content, author) ==
    [title |-> title, content |-> content, author |-> author,
     likes |-> {}, views |-> 0]

\* PostController.getPostById
getPostById(pdb, id) ==
    IF id \notin DOMAIN pdb
    THEN [posts |-> pdb, status |-> 404, error |-> "Post not found"]
    ELSE [ posts |-> [pdb EXCEPT ![id].views = @ + 1], status |-> 200,
           error |-> "" ]

\* PostController.createPost behind protect and createPostValidation; oid is
\* the _id of the new document
createPost(udb, pdb, jwt, title, content, oid, t) ==
    IF protect(udb, jwt, t) # 0 THEN Refused(pdb, protect(udb, jwt, t))
    ELSE [ posts |-> pdb @@ (oid :> NewPost(title, content, jwt.id)),
           status |-> 201, error |-> "" ]

\* a variant of updatePost without the ownership check
updatePostAnyUser(udb, pdb, jwt, id, title, content, t) ==
    IF protect(udb, jwt, t) # 0 THEN Refused(pdb, protect(udb, jwt, t))
    ELSE IF id \notin DOMAIN pdb
    THEN [posts |-> pdb, status |-> 404, error |-> "Post not found"]
    ELSE [ posts |-> [pdb EXCEPT
                        ![id].title = IF title # NotGiven THEN title ELSE @,
                        ![id].content =
                            IF content # NotGiven THEN content ELSE @],
           status |-> 200, error |-> "" ]

\* PostController.updatePost behind protect and updatePostValidation; a field
\* the body leaves out is NotGiven
updatePost(udb, pdb, jwt, id, title, content, t) ==
    IF protect(udb, jwt, t) # 0 THEN Refused(pdb, protect(udb, jwt, t))
    ELSE IF id \notin DOMAIN pdb
    THEN [posts |-> pdb, status |-> 404, error |-> "Post not found"]
    ELSE IF pdb[id].author # jwt.id
    THEN [posts |-> pdb, status |-> 403, error |-> "Authorization Error"]
    ELSE [ posts |-> [pdb EXCEPT
                        ![id].title = IF title # NotGiven THEN title ELSE @,
                        ![id].content =
                            IF content # NotGiven THEN content ELSE @],
           status |-> 200, error |-> "" ]

\* PostController.deletePost behind protect
deletePost(udb, pdb, jwt, id, t) ==
    IF protect(udb, jwt, t) # 0 THEN Refused(pdb, protect(udb, jwt, t))
    ELSE IF id \notin DOMAIN pdb
    THEN [posts |-> pdb, status |-> 404, error |-> "Post not found"]
    ELSE IF pdb[id].author # jwt.id
    THEN [posts |-> pdb, status |-> 403, error |-> "Authorization Error"]
    ELSE [ posts |-> [i \in DOMAIN pdb \ {id} |-> pdb[i]],
           status |-> 200, error |-> "" ]

\* a variant of like that pushes a like whether or not the user has one
likeAlwaysAdds(likes, userId, t) ==
    likes \cup {[user |-> userId, likedAt |-> t]}

\* postSchema.methods.like: the likes array after the toggle
like(likes, userId, t) ==
    IF \E l \in likes : l.user = userId
    THEN {l \in likes : l.user # userId}
    ELSE likes \cup {[user |-> userId, likedAt |-> t]}

\* PostController.likePost behind protect
likePost(udb, pdb, jwt, id, t) ==
    IF protect(udb, jwt, t) # 0 THEN Refused(pdb, protect(udb, jwt, t))
    ELSE IF id \notin DOMAIN pdb
    THEN [posts |-> pdb, status |-> 404, error |-> "Post not found"]
    ELSE LET liked == like(pdb[id].likes, jwt.id, t) IN
         [ posts |-> [pdb EXCEPT ![id].likes = liked],
           status |-> 200, error |-> "",
           isLiked |-> \E l \in liked : l.user = jwt.id,
           likeCount |-> Cardinality(liked) ]

\* ---------------- comment controller ----------------

\* Comment.create with the defaults of the schema
NewComment(content, author, post, parentComment) ==
    [content |-> content, author |-> author, post |-> post,
     parentComment |-> parentComment, replyCount |-> 0]

\* CommentController.createComment behind protect and validateCreateComment;
\* parentComment is NoComment when the body has none, oid is the _id of the
\* new document; the pre-save hook counts the reply on its parent
createComment(udb, pdb, cdb, jwt, postId, content, parentComment, oid, t) ==
    IF protect(udb, jwt, t) # 0
    THEN [comments |-> cdb, status |-> protect(udb, jwt, t), error |-> "protect"]
    ELSE IF postId \notin DOMAIN pdb
    THEN [comments |-> cdb, status |-> 404, error |-> "Post not found"]
    ELSE IF parentComment # NoComment
              /\ (parentComment \notin DOMAIN cdb
                    \/ cdb[parentComment].post # postId)
    THEN [ comments |-> cdb, status |-> 404,
           error |-> "Parent comment not found" ]
    ELSE [ comments |->
             (IF parentComment # NoComment
              THEN [cdb EXCEPT ![parentComment].replyCount = @ + 1]
              ELSE cdb)
               @@ (oid :> NewComment(content, jwt.id, postId, parentComment)),
           status |-> 201, error |-> "" ]

\* ---------------- the requests ----------------

Init ==
    /\ users = <<>>
    /\ now = 1
    /\ nextToken = 1
    /\ inflight = [c \in Clients |-> Idle]
    /\ attempts = <<>>
    /\ posts = <<>>
    /\ comments = <<>>
    /\ nextObjectId = 1
    /\ streak = [i \in Ids |-> 0]
    /\ fate = [t \in Tokens |-> "unissued"]

\* time passes between two requests
Tick ==
    /\ now < MaxTime
    /\ now' = now + 1
    /\ UNCHANGED <<posts, comments, nextObjectId, inflight, users, nextToken, attempts, streak, fate>>

\* the tokens a client can put in a request: none, or one issued so far
Presentable == {NoToken} \cup {t \in Tokens : t < nextToken}

Mark(f, t, what) == IF t \in DOMAIN f THEN [f EXCEPT ![t] = what] ELSE f

\* every token of the records in tokens marked with what
MarkAll(f, tokens, what) ==
    [t \in DOMAIN f |->
        IF \E r \in tokens : r.token = t THEN what ELSE f[t]]

\* the consecutive failed logins of an account after one more response
NextStreak(old, status) ==
    IF status = 200 THEN 0
    ELSE IF old < MaxCount THEN old + 1 ELSE MaxCount

\* POST /api/v1/auth/register, the handle drawn from usernames
RegisterWith(usernames) ==
    \E username \in usernames, email \in Emails,
       password \in InitialPasswords, mailOk \in BOOLEAN :
      LET r == register(users, username, email, password, mailOk,
                        nextToken, nextToken + 1, now)
      IN /\ r.status # 400 => nextToken + 1 <= MaxTokens
         /\ users' = r.users
         /\ nextToken' = IF r.status = 201 THEN nextToken + 2
                         ELSE IF r.status = 500 THEN nextToken + 1
                         ELSE nextToken
         /\ fate' = IF r.status = 201
                    THEN Mark(Mark(fate, nextToken, "verification"),
                              nextToken + 1, "refresh")
                    ELSE IF r.status = 500
                    THEN Mark(fate, nextToken, "withdrawn")
                    ELSE fate
         /\ UNCHANGED <<posts, comments, nextObjectId, inflight, now, attempts, streak>>

Register == RegisterWith(Usernames)

\* POST /api/v1/auth/login: rateLimitByUser(15 * 60 * 1000, 5), validateLogin
\* (which the bodies drawn pass), login; the password is drawn from passwords
LoginWith(passwords) ==
    \E ip \in Ips, identifier \in Usernames \cup Emails, password \in passwords :
      LET limit == rateLimitByUser(attempts, LOGIN_RATE_WINDOW, LOGIN_RATE_MAX,
                                   ip, now)
          r == login(users, identifier, password, nextToken, now)
          found == FindByIdentifier(users, identifier)
      IN IF ~limit.pass
         THEN /\ attempts' = limit.attempts
              /\ UNCHANGED <<posts, comments, nextObjectId, inflight, users, now, nextToken, streak, fate>>
         ELSE /\ r.status = 200 => nextToken <= MaxTokens
              /\ (r.status = 401 /\ found # {}) =>
                    TotalAttempts(users) < MaxCount
              /\ attempts' = limit.attempts
              /\ users' = r.users
              /\ nextToken' = IF r.status = 200 THEN nextToken + 1
                              ELSE nextToken
              /\ fate' = IF r.status = 200
                         THEN Mark(fate, nextToken, "refresh")
                         ELSE fate
              /\ streak' = [i \in Ids |->
                              IF i \in found
                              THEN NextStreak(streak[i], r.status)
                              ELSE streak[i]]
              /\ UNCHANGED <<posts, comments, nextObjectId, inflight, now>>

Login == LoginWith(Passwords)

\* GET /api/v1/auth/me
GetMe ==
    \E jwt \in PresentedJwts(now) :
      /\ users' = getMe(users, jwt, now).users
      /\ UNCHANGED <<posts, comments, nextObjectId, inflight, now, nextToken, attempts, streak, fate>>

\* POST /api/v1/auth/logout
Logout ==
    \E jwt \in PresentedJwts(now), token \in Presentable :
      LET r == logout(users, jwt, token, now) IN
      /\ users' = r.users
      /\ fate' = IF r.users # users THEN Mark(fate, token, "removed") ELSE fate
      /\ UNCHANGED <<posts, comments, nextObjectId, inflight, now, nextToken, attempts, streak>>

\* POST /api/v1/auth/logout-all
LogoutAll ==
    \E jwt \in PresentedJwts(now) :
      LET r == logoutAll(users, jwt, now) IN
      /\ users' = r.users
      /\ fate' = IF r.status = 200
                 THEN MarkAll(fate, users[jwt.id].refreshTokens, "revoked")
                 ELSE fate
      /\ UNCHANGED <<posts, comments, nextObjectId, inflight, now, nextToken, attempts, streak>>

\* PUT /api/v1/auth/password
UpdatePassword ==
    \E jwt \in PresentedJwts(now), cur \in Passwords, new \in Passwords :
      /\ users' = updatePassword(users, jwt, cur, new, now).users
      /\ UNCHANGED <<posts, comments, nextObjectId, inflight, now, nextToken, attempts, streak, fate>>

\* POST /api/v1/auth/resend-verification
ResendVerification ==
    \E jwt \in PresentedJwts(now), mailOk \in BOOLEAN :
      LET r == resendVerification(users, jwt, mailOk, nextToken, now) IN
      /\ r.users # users => nextToken <= MaxTokens
      /\ users' = r.users
      /\ nextToken' = IF r.users # users THEN nextToken + 1 ELSE nextToken
      /\ fate' = IF r.users # users THEN Mark(fate, nextToken, "verification")
                 ELSE fate
      /\ UNCHANGED <<posts, comments, nextObjectId, inflight, now, attempts, streak>>

\* POST /api/v1/auth/forgot-password
ForgotPassword ==
    \E email \in Emails, mailOk \in BOOLEAN :
      LET r == forgotPassword(users, email, mailOk, nextToken, now) IN
      /\ r.status # 404 => nextToken <= MaxTokens
      /\ users' = r.users
      /\ nextToken' = IF r.status # 404 THEN nextToken + 1 ELSE nextToken
      /\ fate' = IF r.status = 200 THEN Mark(fate, nextToken, "reset")
                 ELSE IF r.status = 500 THEN Mark(fate, nextToken, "withdrawn")
                 ELSE fate
      /\ UNCHANGED <<posts, comments, nextObjectId, inflight, now, attempts, streak>>

\* PUT /api/v1/auth/reset-password/:resettoken
ResetPassword ==
    \E token \in Presentable, password \in Passwords :
      LET r == resetPasswordRoute(users, token, password, now) IN
      /\ users' = r.users
      /\ fate' = IF r.status = 200
                 THEN MarkAll(Mark(fate, token, "consumed"),
                              users[r.uid].refreshTokens, "revoked")
                 ELSE fate
      /\ UNCHANGED <<posts, comments, nextObjectId, inflight, now, nextToken, attempts, streak>>

\* GET /api/v1/auth/verify-email/:token
VerifyEmail ==
    \E token \in Presentable :
      LET r == verifyEmail(users, token, now) IN
      /\ users' = r.users
      /\ fate' = IF r.status = 200 THEN Mark(fate, token, "consumed") ELSE fate
      /\ UNCHANGED <<posts, comments, nextObjectId, inflight, now, nextToken, attempts, streak>>

\* POST /api/v1/auth/refresh-token
RefreshToken ==
    \E token \in Presentable :
      LET r == refreshToken(users, token, nextToken, now) IN
      /\ r.status = 200 => nextToken <= MaxTokens
      /\ users' = r.users
      /\ nextToken' = IF r.status = 200 THEN nextToken + 1 ELSE nextToken
      /\ fate' = IF r.status = 200
                 THEN Mark(Mark(fate, token, "redeemed"), nextToken, "refresh")
                 ELSE fate
      /\ UNCHANGED <<posts, comments, nextObjectId, inflight, now, attempts, streak>>

\* POST /api/v1/users
CreateUser ==
    \E username \in Usernames, email \in Emails, password \in InitialPasswords :
      /\ users' = createUser(users, username, email, password).users
      /\ UNCHANGED <<posts, comments, nextObjectId, inflight, now, nextToken, attempts, streak, fate>>

\* PUT /api/v1/users/:id
UpdateUser ==
    \E id \in Ids, password \in Passwords :
      /\ users' = updateUser(users, id, password).users
      /\ UNCHANGED <<posts, comments, nextObjectId, inflight, now, nextToken, attempts, streak, fate>>

\* DELETE /api/v1/users/:id
DeleteUser ==
    \E id \in Ids :
      /\ users' = deleteUser(users, id).users
      /\ UNCHANGED <<posts, comments, nextObjectId, inflight, now, nextToken, attempts, streak, fate>>

\* PUT /api/v1/users/:id with an email
UpdateUserEmail ==
    \E id \in Ids, email \in Emails :
      /\ users' = updateUserEmail(users, id, email).users
      /\ UNCHANGED <<posts, comments, nextObjectId, inflight, now, nextToken, attempts, streak, fate>>

\* POST /api/v1/auth/register of client c, first step: validateRegister; the
\* request is then suspended
RegisterValidate(c) ==
    /\ inflight[c] = Idle
    /\ \E username \in Usernames, email \in Emails,
          password \in InitialPasswords :
         inflight' = IF TakenFields(users, username, email) # {}
                     THEN inflight
                     ELSE [inflight EXCEPT ![c] =
                             [ op |-> "validated", username |-> username,
                               email |-> email, password |-> password ]]
    /\ UNCHANGED <<posts, comments, nextObjectId, users, now, nextToken,
                   attempts, streak, fate>>

\* second step: the controller looks for an existing user; the request is
\* suspended again before User.create
RegisterCheck(c) ==
    /\ inflight[c].op = "validated"
    /\ inflight' =
         IF registerCheck(users, inflight[c].username,
                          inflight[c].email).status = 400
         THEN [inflight EXCEPT ![c] = Idle]
         ELSE [inflight EXCEPT ![c].op = "checked"]
    /\ UNCHANGED <<posts, comments, nextObjectId, users, now, nextToken,
                   attempts, streak, fate>>

\* last step: User.create and the rest of the controller
RegisterCreate(c) ==
    /\ inflight[c].op = "checked"
    /\ \E mailOk \in BOOLEAN :
         LET r == registerCreate(users, inflight[c].username,
                                 inflight[c].email, inflight[c].password,
                                 mailOk, nextToken, nextToken + 1, now)
         IN /\ r.status # 400 => nextToken + 1 <= MaxTokens
            /\ users' = r.users
            /\ nextToken' = IF r.status = 201 THEN nextToken + 2
                            ELSE IF r.status = 500 THEN nextToken + 1
                            ELSE nextToken
            /\ fate' = IF r.status = 201
                       THEN Mark(Mark(fate, nextToken, "verification"),
                                 nextToken + 1, "refresh")
                       ELSE IF r.status = 500
                       THEN Mark(fate, nextToken, "withdrawn")
                       ELSE fate
    /\ inflight' = [inflight EXCEPT ![c] = Idle]
    /\ UNCHANGED <<posts, comments, nextObjectId, now, attempts, streak>>

\* GET /api/v1/posts/:id
GetPostById ==
    \E id \in ObjectIds :
      /\ id \in DOMAIN posts => posts[id].views < MaxViews
      /\ posts' = getPostById(posts, id).posts
      /\ UNCHANGED <<comments, nextObjectId, inflight, users, now, nextToken,
                     attempts, streak, fate>>

\* POST /api/v1/posts
CreatePost ==
    \E jwt \in PresentedJwts(now), title \in Titles, content \in Contents :
      LET r == createPost(users, posts, jwt, title, content, nextObjectId, now)
      IN /\ nextObjectId <= MaxPosts
         /\ posts' = r.posts
         /\ nextObjectId' = IF r.status = 201 THEN nextObjectId + 1
                            ELSE nextObjectId
         /\ UNCHANGED <<comments, inflight, users, now, nextToken, attempts,
                        streak, fate>>

\* PUT /api/v1/posts/:id
UpdatePost ==
    \E jwt \in PresentedJwts(now), id \in ObjectIds,
       title \in Titles \cup {NotGiven}, content \in Contents \cup {NotGiven} :
      /\ posts' = updatePost(users, posts, jwt, id, title, content, now).posts
      /\ UNCHANGED <<comments, nextObjectId, inflight, users, now, nextToken,
                     attempts, streak, fate>>

\* DELETE /api/v1/posts/:id
DeletePost ==
    \E jwt \in PresentedJwts(now), id \in ObjectIds :
      /\ posts' = deletePost(users, posts, jwt, id, now).posts
      /\ UNCHANGED <<comments, nextObjectId, inflight, users, now, nextToken,
                     attempts, streak, fate>>

\* POST /api/v1/posts/:id/like
LikePost ==
    \E jwt \in PresentedJwts(now), id \in ObjectIds :
      /\ posts' = likePost(users, posts, jwt, id, now).posts
      /\ UNCHANGED <<comments, nextObjectId, inflight, users, now, nextToken,
                     attempts, streak, fate>>

\* POST /api/v1/posts/:postId/comments
CreateComment ==
    \E jwt \in PresentedJwts(now), postId \in ObjectIds,
       content \in CommentTexts, parentComment \in ObjectIds \cup {NoComment} :
      LET r == createComment(users, posts, comments, jwt, postId, content,
                             parentComment, nextObjectId, now)
      IN /\ nextObjectId <= MaxObjects
         /\ comments' = r.comments
         /\ nextObjectId' = IF r.status = 201 THEN nextObjectId + 1
                            ELSE nextObjectId
         /\ UNCHANGED <<posts, inflight, users, now, nextToken, attempts,
                        streak, fate>>

\* POST /api/v1/auth/login of client c up to the return of User.findOne; the
\* request is then suspended
LoginRead(c) ==
    /\ inflight[c] = Idle
    /\ \E ip \in Ips, identifier \in Usernames \cup Emails,
          password \in Passwords :
         LET limit == rateLimitByUser(attempts, LOGIN_RATE_WINDOW,
                                      LOGIN_RATE_MAX, ip, now)
             found == FindByIdentifier(users, identifier)
         IN /\ attempts' = limit.attempts
            /\ inflight' =
                 IF limit.pass /\ found # {}
                 THEN [inflight EXCEPT ![c] =
                         [ op |-> "login",
                           id |-> CHOOSE i \in found : TRUE,
                           read |-> users[CHOOSE i \in found : TRUE],
                           password |-> password ]]
                 ELSE inflight
    /\ UNCHANGED <<posts, comments, nextObjectId, users, now, nextToken,
                   streak, fate>>

\* the rest of the login request of client c
LoginWrite(c) ==
    /\ inflight[c].op = "login"
    /\ LET r == loginWrite(users, inflight[c].id, inflight[c].read,
                           inflight[c].password, nextToken, now)
       IN /\ r.status = 200 => nextToken <= MaxTokens
          /\ r.status = 401 => TotalAttempts(users) < MaxCount
          /\ users' = r.users
          /\ nextToken' = IF r.status = 200 THEN nextToken + 1 ELSE nextToken
          /\ fate' = IF r.status = 200 THEN Mark(fate, nextToken, "refresh")
                     ELSE fate
          /\ streak' = [streak EXCEPT ![inflight[c].id] =
                          NextStreak(@, IF r.status = 401 THEN 401 ELSE 200)]
    /\ inflight' = [inflight EXCEPT ![c] = Idle]
    /\ UNCHANGED <<posts, comments, nextObjectId, now, attempts>>

\* POST /api/v1/auth/refresh-token of client c up to the return of
\* User.findOne; a request that finds no account is answered 401 at once,
\* the others are suspended
RefreshRead(c) ==
    /\ inflight[c] = Idle
    /\ \E token \in Presentable :
         LET found == FindByRefreshToken(users, token, now) IN
         inflight' =
           IF token # NoToken /\ found # {}
           THEN [inflight EXCEPT ![c] =
                   [ op |-> "refresh",
                     id |-> CHOOSE i \in found : TRUE,
                     read |-> users[CHOOSE i \in found : TRUE],
                     token |-> token ]]
           ELSE inflight
    /\ UNCHANGED <<posts, comments, nextObjectId, users, now, nextToken,
                   attempts, streak, fate>>

\* the rest of the refresh-token request of client c
RefreshWrite(c) ==
    /\ inflight[c].op = "refresh"
    /\ LET r == refreshWrite(users, inflight[c].id, inflight[c].read,
                             inflight[c].token, nextToken, now)
       IN /\ r.status = 200 => nextToken <= MaxTokens
          /\ users' = r.users
          /\ nextToken' = IF r.status = 200 THEN nextToken + 1 ELSE nextToken
          /\ fate' = IF r.status = 200
                     THEN Mark(Mark(fate, inflight[c].token, "redeemed"),
                               nextToken, "refresh")
                     ELSE fate
    /\ inflight' = [inflight EXCEPT ![c] = Idle]
    /\ UNCHANGED <<posts, comments, nextObjectId, now, attempts, streak>>

\* ---------------- workloads ----------------

\* one client signs up and logs in with right and wrong passwords
NextLockout ==
    \/ Tick
    \/ RegisterWith({"alice"})
    \/ Login

SpecLockout == Init /\ [][NextLockout]_vars

\* the refresh and access tokens of one client who knows the password
NextSession ==
    \/ Tick
    \/ RegisterWith({"alice"})
    \/ LoginWith(InitialPasswords)
    \/ RefreshToken
    \/ Logout
    \/ LogoutAll
    \/ GetMe

SpecSession == Init /\ [][NextSession]_vars

\* the refresh tokens of two clients
NextDevices ==
    \/ Tick
    \/ Register
    \/ LoginWith(InitialPasswords)
    \/ RefreshToken
    \/ LogoutAll

SpecDevices == Init /\ [][NextDevices]_vars

\* one client with several sessions who asks for a password reset
NextReset ==
    \/ Tick
    \/ RegisterWith({"alice"})
    \/ LoginWith(InitialPasswords)
    \/ RefreshToken
    \/ ForgotPassword
    \/ ResetPassword

SpecReset == Init /\ [][NextReset]_vars

\* sign-ups of two clients that interleave, and the user routes
NextSignup ==
    \/ Tick
    \/ \E c \in Clients : RegisterValidate(c)
    \/ \E c \in Clients : RegisterCheck(c)
    \/ \E c \in Clients : RegisterCreate(c)
    \/ CreateUser
    \/ UpdateUserEmail

SpecSignup == Init /\ [][NextSignup]_vars

\* one account that signs up, logs in and asks for verification mails
NextVerify ==
    \/ Tick
    \/ RegisterWith({"alice"})
    \/ LoginWith(InitialPasswords)
    \/ ResendVerification
    \/ VerifyEmail

SpecVerify == Init /\ [][NextVerify]_vars

\* two users who write, change, delete and read posts
NextPosts ==
    \/ CreateUser
    \/ CreatePost
    \/ UpdatePost
    \/ DeletePost
    \/ GetPostById

SpecPosts == Init /\ [][NextPosts]_vars

\* two users who write and like posts
NextLikes ==
    \/ CreateUser
    \/ CreatePost
    \/ LikePost

SpecLikes == Init /\ [][NextLikes]_vars

\* POST /api/v1/posts while there is no post
FirstPost == posts = <<>> /\ CreatePost

\* two users who like and unlike one post as time passes
NextToggle ==
    \/ Tick
    \/ CreateUser
    \/ FirstPost
    \/ LikePost

SpecToggle == Init /\ [][NextToggle]_vars

\* two users, their posts and the comments on them
NextComments ==
    \/ CreateUser
    \/ CreatePost
    \/ CreateComment

SpecComments == Init /\ [][NextComments]_vars

\* two accounts that log in and log out
NextLogout ==
    \/ CreateUser
    \/ LoginWith(InitialPasswords)
    \/ Logout

SpecLogout == Init /\ [][NextLogout]_vars

\* two accounts that sign up, log out and change their passwords
NextRevoke ==
    \/ Tick
    \/ Register
    \/ Logout
    \/ LogoutAll
    \/ UpdatePassword
    \/ GetMe

SpecRevoke == Init /\ [][NextRevoke]_vars

\* one account and two clients whose logins overlap
NextRace ==
    \/ RegisterWith({"alice"})
    \/ \E c \in Clients : LoginRead(c)
    \/ \E c \in Clients : LoginWrite(c)

SpecRace == Init /\ [][NextRace]_vars

\* one account and two clients whose refresh-token requests overlap
NextRedeem ==
    \/ Tick
    \/ RegisterWith({"alice"})
    \/ \E c \in Clients : RefreshRead(c)
    \/ \E c \in Clients : RefreshWrite(c)

SpecRedeem == Init /\ [][NextRedeem]_vars

\* an account that is deactivated while its owner keeps signing in
NextDeactivate ==
    \/ Tick
    \/ RegisterWith({"alice"})
    \/ DeleteUser
    \/ LoginWith(InitialPasswords)
    \/ RefreshToken

SpecDeactivate == Init /\ [][NextDeactivate]_vars

\* an account whose password is changed between logins
NextChange ==
    \/ Tick
    \/ RegisterWith({"alice"})
    \/ Login
    \/ UpdatePassword

SpecChange == Init /\ [][NextChange]_vars

\* the routes that write a password
NextPasswords ==
    \/ Tick
    \/ Register
    \/ CreateUser
    \/ UpdatePassword
    \/ UpdateUser
    \/ ForgotPassword
    \/ ResetPassword

SpecPasswords == Init /\ [][NextPasswords]_vars

\* the life of verification and reset tokens
NextTokens ==
    \/ Tick
    \/ Register
    \/ ResendVerification
    \/ VerifyEmail
    \/ ForgotPassword
    \/ ResetPassword

SpecTokens == Init /\ [][NextTokens]_vars

\* every route
Next ==
    \/ Tick
    \/ Register
    \/ Login
    \/ GetMe
    \/ Logout
    \/ LogoutAll
    \/ UpdatePassword
    \/ ResendVerification
    \/ ForgotPassword
    \/ ResetPassword
    \/ VerifyEmail
    \/ RefreshToken
    \/ CreateUser
    \/ UpdateUser
    \/ DeleteUser
    \/ UpdateUserEmail
    \/ \E c \in Clients : RegisterValidate(c)
    \/ \E c \in Clients : RegisterCheck(c)
    \/ \E c \in Clients : RegisterCreate(c)
    \/ GetPostById
    \/ CreatePost
    \/ UpdatePost
    \/ DeletePost
    \/ LikePost
    \/ CreateComment
    \/ \E c \in Clients : LoginRead(c)
    \/ \E c \in Clients : LoginWrite(c)
    \/ \E c \in Clients : RefreshRead(c)
    \/ \E c \in Clients : RefreshWrite(c)

Spec == Init /\ [][Next]_vars

\* ---------------- lockout (checked under SpecLockout) ----------------

\* the passwords that do and do not open the account
RightPasswords(user) == {p \in Passwords : user.password = bcryptHash(p)}
WrongPasswords(user) == Passwords \ RightPasswords(user)

\* the login request of account i with password p, as answered in this state
LoginOf(i, p) == login(users, users[i].username, p, nextToken, now)

Ordinal(i) == streak[i] + 1

C3_LoginAfterExpiry ==
    \A i \in DOMAIN users :
      (users[i].lockUntil # NoDate /\ users[i].lockUntil <= now) =>
        \A p \in RightPasswords(users[i]) :
           /\ LoginOf(i, p).status = 200
           /\ LoginOf(i, p).uid = i
           /\ LoginOf(i, p).users[i].loginAttempts = 0
           /\ LoginOf(i, p).users[i].lockUntil = NoDate

\* C3 witness: a lock that was set has run out and the correct password opens
\* the account
C3_Witness ==
    \E i \in DOMAIN users :
      /\ streak[i] >= MAX_LOGIN_ATTEMPTS
      /\ users[i].lockUntil # NoDate
      /\ users[i].lockUntil < now
      /\ \E p \in RightPasswords(users[i]) : LoginOf(i, p).status = 200

\* ---------------- refresh and access tokens ----------------

\* the accounts that store token T in a record that has not expired
HoldersOf(T) ==
    {i \in DOMAIN users :
        \E r \in users[i].refreshTokens : r.token = T /\ r.expiresAt > now}

\* the refresh-token request with token T, as answered in this state
RedeemOf(T) == refreshToken(users, T, nextToken, now)

TokensOf(user) == {r.token : r \in user.refreshTokens}

\* C4: redeeming a stored, unexpired refresh token T succeeds, removes T from
\* the account and returns a new refresh token (stored on the account) with a
\* new access token; a token that was redeemed is answered 401 ever after and
\* the request changes no account.  (SpecSession)
C4_RedemptionSingleUse ==
    \A T \in Tokens :
      /\ \A i \in HoldersOf(T) :
           /\ RedeemOf(T).status = 200
           /\ RedeemOf(T).uid = i
           /\ T \notin TokensOf(RedeemOf(T).users[i])
           /\ RedeemOf(T).refreshToken # T
           /\ RedeemOf(T).refreshToken \in TokensOf(RedeemOf(T).users[i])
           /\ RedeemOf(T).accessToken
           /\ refreshToken(RedeemOf(T).users, T, nextToken + 1, now).status = 401
      /\ fate[T] = "redeemed" =>
           /\ RedeemOf(T).status = 401
           /\ RedeemOf(T).users = users

\* C4 witness: a token was redeemed, its successor is stored and unexpired, and
\* the redeemed one is now answered 401
C4_Witness ==
    \E T \in Tokens, S \in Tokens :
      /\ fate[T] = "redeemed"
      /\ fate[S] = "refresh"
      /\ S > T
      /\ HoldersOf(S) # {}
      /\ RedeemOf(T).status = 401

C6_IssuerAudienceChecked ==
    \A jwt \in PresentedJwts(now) :
      (jwt.iss # JWT_ISSUER \/ jwt.aud # JWT_AUDIENCE) =>
         protect(users, jwt, now) # 0

\* C7 as stated: the stored password of every account is a digest made by the
\* hasher.  (SpecPasswords)
C7_PasswordIsDigest ==
    \A i \in DOMAIN users : users[i].password.alg = "bcrypt"

\* C8: a logout-all that is answered 200 leaves the account without refresh
\* tokens, every token the account held is then refused, and the documents of
\* the other accounts are as before; a token revoked this way stays refused.
\* (SpecDevices)
C8_LogoutAllRevokes ==
    /\ \A jwt \in PresentedJwts(now) :
         logoutAll(users, jwt, now).status = 200 =>
           /\ logoutAll(users, jwt, now).users[jwt.id].refreshTokens = {}
           /\ \A T \in TokensOf(users[jwt.id]) :
                refreshToken(logoutAll(users, jwt, now).users, T,
                             nextToken, now).status = 401
           /\ \A j \in DOMAIN users \ {jwt.id} :
                logoutAll(users, jwt, now).users[j] = users[j]
    /\ \A T \in Tokens :
         fate[T] = "revoked" =>
           /\ RedeemOf(T).status = 401
           /\ RedeemOf(T).users = users

\* C8 witness: logout-all revoked a token of one account, which is refused,
\* while another account holds a token that is still redeemed
C8_Witness ==
    \E T \in Tokens, S \in Tokens :
      /\ fate[T] = "revoked"
      /\ RedeemOf(T).status = 401
      /\ HoldersOf(S) # {}
      /\ RedeemOf(S).status = 200

\* ---------------- verification and reset tokens (SpecTokens) ----------------

\* the verify-email and reset-password handlers run with cleartext c, as
\* answered in this state
VerifyOf(c) == verifyEmail(users, c, now)
ResetOf(c, p) == resetPassword(users, TRUE, c, p, now)

\* C9: a successful consumption of a verification or reset token clears the
\* stored digest and expiry, and the same cleartext presented again fails and
\* changes no account, at once and ever after; a token presented at or after
\* its expiry fails and changes no account.
C9_TokensSingleUse ==
    \A c \in Tokens :
      /\ VerifyOf(c).status = 200 =>
           /\ VerifyOf(c).users[VerifyOf(c).uid].emailVerificationToken
                = Undefined
           /\ VerifyOf(c).users[VerifyOf(c).uid].emailVerificationExpire
                = NoDate
           /\ verifyEmail(VerifyOf(c).users, c, now).status = 400
           /\ verifyEmail(VerifyOf(c).users, c, now).users = VerifyOf(c).users
      /\ \A p \in Passwords :
           ResetOf(c, p).status = 200 =>
             /\ ResetOf(c, p).users[ResetOf(c, p).uid].resetPasswordToken
                  = Undefined
             /\ ResetOf(c, p).users[ResetOf(c, p).uid].resetPasswordExpire
                  = NoDate
             /\ \A q \in Passwords :
                  /\ resetPassword(ResetOf(c, p).users, TRUE, c, q, now).status
                       = 400
                  /\ resetPassword(ResetOf(c, p).users, TRUE, c, q, now).users
                       = ResetOf(c, p).users
      /\ fate[c] = "consumed" =>
           /\ VerifyOf(c).status = 400
           /\ VerifyOf(c).users = users
           /\ \A p \in Passwords :
                ResetOf(c, p).status = 400 /\ ResetOf(c, p).users = users
      /\ \A i \in DOMAIN users :
           /\ (users[i].emailVerificationToken = sha256(c)
                 /\ users[i].emailVerificationExpire <= now) =>
                VerifyOf(c).status = 400 /\ VerifyOf(c).users = users
           /\ (users[i].resetPasswordToken = sha256(c)
                 /\ users[i].resetPasswordExpire <= now) =>
                \A p \in Passwords :
                   ResetOf(c, p).status = 400 /\ ResetOf(c, p).users = users

\* C9 witness: a verification token was consumed and is refused now, and a
\* reset token that was mailed has run out and is refused
C9_Witness ==
    \E c \in Tokens, e \in Tokens :
      /\ fate[c] = "consumed"
      /\ VerifyOf(c).status = 400
      /\ fate[e] = "reset"
      /\ \E i \in DOMAIN users :
            /\ users[i].resetPasswordToken = sha256(e)
            /\ users[i].resetPasswordExpire <= now
      /\ \A p \in Passwords : ResetOf(e, p).status = 400

\* C10 as stated: a request through the reset-password route that carries the
\* cleartext of the stored, unexpired reset token of an account and a valid
\* new password is answered 200, the password replaced by the digest of the
\* new one, the reset digest and expiry cleared.
C10_ResetRouteSucceeds ==
    \A i \in DOMAIN users : \A c \in Tokens : \A p \in Passwords :
      (users[i].resetPasswordToken = sha256(c)
         /\ users[i].resetPasswordExpire > now) =>
        /\ resetPasswordRoute(users, c, p, now).status = 200
        /\ resetPasswordRoute(users, c, p, now).users[i].password
             = bcryptHash(p)
        /\ resetPasswordRoute(users, c, p, now).users[i].resetPasswordToken
             = Undefined
        /\ resetPasswordRoute(users, c, p, now).users[i].resetPasswordExpire
             = NoDate

\* ---------------- password reset and sessions (SpecReset) ----------------

\* C11: after a password reset that is answered 200 the account holds no
\* refresh token, no token presented is redeemed for that account any more,
\* and a login with the new password (the account not being locked) is what
\* hands out and stores a refresh token again.
C11_ResetEndsSessions ==
    \A c \in Tokens : \A p \in Passwords :
      ResetOf(c, p).status = 200 =>
        /\ ResetOf(c, p).users[ResetOf(c, p).uid].refreshTokens = {}
        /\ \A T \in Tokens :
             /\ refreshToken(ResetOf(c, p).users, T, nextToken, now).uid
                  # ResetOf(c, p).uid
             /\ T \in TokensOf(users[ResetOf(c, p).uid]) =>
                  refreshToken(ResetOf(c, p).users, T, nextToken, now).status
                    = 401
        /\ ~(users[ResetOf(c, p).uid].lockUntil > now) =>
             /\ login(ResetOf(c, p).users, users[ResetOf(c, p).uid].username,
                      p, nextToken, now).status = 200
             /\ TokensOf(login(ResetOf(c, p).users,
                               users[ResetOf(c, p).uid].username,
                               p, nextToken, now).users[ResetOf(c, p).uid])
                  = {nextToken}

\* C11 witness: an account holds two refresh tokens that would be redeemed and
\* a reset token that resets its password
C11_Witness ==
    \E c \in Tokens, T \in Tokens, S \in Tokens :
      /\ T # S
      /\ \E p \in Passwords : ResetOf(c, p).status = 200
      /\ HoldersOf(T) # {}
      /\ HoldersOf(S) = HoldersOf(T)
      /\ RedeemOf(T).status = 200
      /\ RedeemOf(S).status = 200
      /\ \A p \in Passwords : ResetOf(c, p).uid \in HoldersOf(T)

\* ---------------- uniqueness (SpecSignup) ----------------

\* the requests suspended before User.create whose username or email has been
\* taken meanwhile
Overtaken ==
    {c \in Clients :
        /\ inflight[c].op = "checked"
        /\ TakenFields(users, inflight[c].username, inflight[c].email) # {}}

\* C12: no two accounts share a username or an email, also when sign-ups
\* interleave (a sign-up overtaken before its User.create creates nothing);
\* a registration whose username or email is taken is answered 400, creates
\* no account and names a field that is taken, by the validators and by the
\* controller alike.
C12_UniqueHandles ==
    /\ \A i \in DOMAIN users : \A j \in DOMAIN users \ {i} :
         /\ users[i].username # users[j].username
         /\ users[i].email # users[j].email
    /\ \A c \in Overtaken : \A mailOk \in BOOLEAN :
         registerCreate(users, inflight[c].username, inflight[c].email,
                   inflight[c].password, mailOk, nextToken, nextToken + 1,
                   now).users = users
    /\ \A username \in Usernames : \A email \in Emails :
       \A password \in Passwords : \A mailOk \in BOOLEAN :
         TakenFields(users, username, email) # {} =>
           /\ register(users, username, email, password, mailOk,
                       nextToken, nextToken + 1, now).status = 400
           /\ register(users, username, email, password, mailOk,
                       nextToken, nextToken + 1, now).users = users
           /\ register(users, username, email, password, mailOk,
                       nextToken, nextToken + 1, now).fields
                = TakenFields(users, username, email)
           /\ registerCheck(users, username, email).status = 400
           /\ registerCheck(users, username, email).fields # {}
           /\ registerCheck(users, username, email).fields
                \subseteq TakenFields(users, username, email)

\* C12 witness: two sign-ups interleaved, one created its account and the
\* other, past its checks, is about to call User.create with a taken handle
C12_Witness ==
    /\ users # <<>>
    /\ \E c \in Overtaken :
         register(users, inflight[c].username, inflight[c].email,
                  inflight[c].password, TRUE, nextToken, nextToken + 1,
                  now).status = 400

\* ---------------- login outcomes (SpecLockout) ----------------

\* what a client can send as the identifier of a login
Identifiers == Usernames \cup Emails

\* the login request with identifier a and password p, as answered in this
\* state
LoginAs(a, p) == login(users, a, p, nextToken, now)

FailedSignup(username, email, password) ==
    register(users, username, email, password, FALSE,
             nextToken, nextToken + 1, now)

\* the resend-verification request of account i with an access token signed
\* at time s, run on collection db with a mail that is delivered
ResendOf(db, i, s, vt) ==
    resendVerification(db, getSignedJwtToken(i, s), TRUE, vt, now)

\* C14: a registration whose verification mail fails leaves the account in
\* the collection with no verification digest and no expiry; the account can
\* then log in, and with its access token resend-verification stores a new
\* digest whose cleartext verifies the address.  In every later state too an
\* unverified account gets a new verification token from resend-verification.
C14_FailedMailKeepsAccount ==
    /\ \A username \in Usernames : \A email \in Emails :
       \A password \in Passwords :
         (TakenFields(users, username, email) = {}
            /\ DOMAIN users # Ids) =>
           LET r == FailedSignup(username, email, password)
               l == login(r.users, username, password, nextToken + 1, now)
               v == ResendOf(l.users, r.uid, now, nextToken + 2)
           IN /\ r.status = 500
              /\ r.uid \in DOMAIN r.users \ DOMAIN users
              /\ r.users[r.uid].username = username
              /\ r.users[r.uid].email = email
              /\ r.users[r.uid].emailVerificationToken = Undefined
              /\ r.users[r.uid].emailVerificationExpire = NoDate
              /\ l.status = 200
              /\ l.uid = r.uid
              /\ v.status = 200
              /\ v.users[r.uid].emailVerificationToken
                   = sha256(nextToken + 2)
              /\ v.users[r.uid].emailVerificationExpire > now
              /\ verifyEmail(v.users, nextToken + 2, now).status = 200
    /\ \A i \in DOMAIN users : \A s \in 1..now :
         ~users[i].emailVerified =>
           /\ ResendOf(users, i, s, nextToken).status = 200
           /\ ResendOf(users, i, s, nextToken).users[i].emailVerificationToken
                = sha256(nextToken)
           /\ ResendOf(users, i, s, nextToken).users[i].emailVerificationExpire
                > now

\* C14 witness: the mail of the registration failed (its token was
\* withdrawn), the account has logged in since and holds the verification
\* token of a later resend-verification
C14_Witness ==
    /\ \E t \in Tokens : fate[t] = "withdrawn"
    /\ \E i \in DOMAIN users :
         /\ users[i].refreshTokens # {}
         /\ users[i].emailVerificationToken # Undefined
         /\ ~users[i].emailVerified

\* C15 as stated: when the mail of a resend-verification or forgot-password
\* request cannot be delivered, the request answers 500 and the digest and
\* expiry it wrote for its token are not stored on the account afterwards.
C15_NoHalfIssuedToken ==
    /\ \A i \in DOMAIN users :
         LET r == resendVerification(users, getSignedJwtToken(i, now), FALSE,
                                     nextToken, now)
         IN (users[i].isActive /\ ~users[i].emailVerified) =>
              /\ r.status = 500
              /\ r.users[i].emailVerificationToken # sha256(nextToken)
    /\ \A i \in DOMAIN users :
         LET r == forgotPassword(users, users[i].email, FALSE, nextToken, now)
         IN /\ r.status = 500
            /\ r.users[i].resetPasswordToken # sha256(nextToken)
            /\ r.users[i].resetPasswordExpire = NoDate

\* ---------------- posts (SpecLikes, SpecPosts) ----------------

\* the access token of user u as protect accepts it in this state
TokenOf(u) == getSignedJwtToken(u, now)

\* C16 as stated: the like request of the author of a post on that post is
\* answered 400 and leaves the likes of the post as they were.
C16_OwnLikeRejected ==
    \A id \in DOMAIN posts :
      posts[id].author \in DOMAIN users =>
        /\ likePost(users, posts, TokenOf(posts[id].author), id, now).status
             = 400
        /\ likePost(users, posts, TokenOf(posts[id].author), id,
                    now).posts[id].likes = posts[id].likes

\* C17: an update or a delete of a post by an authenticated user who is not
\* its author is answered 403 'Authorization Error' and leaves the posts as
\* they are (the post exists with the same fields); the same requests by the
\* author succeed, and after the author's delete the post reads 404.  No post
\* that was deleted is ever read again.
C17_OnlyAuthorWrites ==
    /\ \A id \in DOMAIN posts : \A u \in DOMAIN users :
       \A title \in Titles \cup {NotGiven} :
       \A content \in Contents \cup {NotGiven} :
         LET upd == updatePost(users, posts, TokenOf(u), id, title, content,
                               now)
             del == deletePost(users, posts, TokenOf(u), id, now)
         IN IF u # posts[id].author
            THEN /\ upd.status = 403
                 /\ upd.error = "Authorization Error"
                 /\ upd.posts = posts
                 /\ del.status = 403
                 /\ del.error = "Authorization Error"
                 /\ del.posts = posts
            ELSE /\ upd.status = 200
                 /\ title # NotGiven => upd.posts[id].title = title
                 /\ content # NotGiven => upd.posts[id].content = content
                 /\ del.status = 200
                 /\ id \notin DOMAIN del.posts
                 /\ getPostById(del.posts, id).status = 404
    /\ \A id \in ObjectIds :
         (id < nextObjectId /\ id \notin DOMAIN posts) =>
           getPostById(posts, id).status = 404

\* C17 witness: two users, a post of one of them that its author has changed,
\* and a post that was deleted
C17_Witness ==
    /\ Cardinality(DOMAIN users) = 2
    /\ \E id \in DOMAIN posts : posts[id].title = "Second title"
    /\ \E id \in ObjectIds : id < nextObjectId /\ id \notin DOMAIN posts

\* ---------------- comments (SpecComments) ----------------

\* the comments that are replies to a reply
DeepReplies ==
    {c \in DOMAIN comments :
        /\ comments[c].parentComment # NoComment
        /\ comments[c].parentComment \in DOMAIN comments
        /\ comments[comments[c].parentComment].parentComment # NoComment}

\* C18 as stated: every comment with a parentComment has a parent that is
\* top-level, and a request to create a reply to a reply creates no comment.
C18_OneLevelOfReplies ==
    /\ DeepReplies = {}
    /\ \A u \in DOMAIN users : \A c \in DOMAIN comments :
         comments[c].parentComment # NoComment =>
           createComment(users, posts, comments, TokenOf(u), comments[c].post,
                         "A comment.", c, nextObjectId, now).comments
             = comments

\* ---------------- failed attempts (SpecLockout) ----------------

LockExpired(user) == user.lockUntil # NoDate /\ user.lockUntil < now

LogoutOf(i, v) == logout(users, TokenOf(i), v, now)

\* C22: a logout with a refresh-token value removes from the account of the
\* caller the records with that value and nothing else: its other records
\* and fields, and every other account, stay as they are; a logout without a
\* value changes nothing.
C22_LogoutRemovesOne ==
    \A i \in DOMAIN users : \A v \in Tokens \cup {NoToken} :
      /\ LogoutOf(i, v).status = 200
      /\ v # NoToken =>
           LogoutOf(i, v).users[i].refreshTokens
             = {r \in users[i].refreshTokens : r.token # v}
      /\ LogoutOf(i, v).users
           = [users EXCEPT ![i].refreshTokens =
                LogoutOf(i, v).users[i].refreshTokens]
      /\ v = NoToken => LogoutOf(i, v).users = users

\* C22 witness: a logout has removed a token of one account, which keeps
\* another record, and the other account holds its record
C22_Witness ==
    /\ \E t \in Tokens : fate[t] = "removed"
    /\ \E i \in DOMAIN users : \E j \in DOMAIN users \ {i} :
         /\ users[i].refreshTokens # {}
         /\ users[j].refreshTokens # {}
         /\ \E v \in TokensOf(users[j]) :
              /\ LogoutOf(i, v).users = users
              /\ LogoutOf(j, v).users # users

\* ---------------- access tokens (SpecRevoke) ----------------

\* the access tokens signed for account i up to now
IssuedJwts(i) == {getSignedJwtToken(i, s) : s \in 1..now}

\* C23: an access token signed earlier for an account that exists and is
\* active, and not expired, passes protect in every reachable state, whatever
\* logouts and password changes came before, and passes it on the collection
\* that a logout, a logout-all, a password change or a password reset leaves.
C23_AccessTokenOutlives ==
    \A i \in DOMAIN users : \A jwt \in IssuedJwts(i) :
      (users[i].isActive /\ jwt.exp > now) =>
        /\ protect(users, jwt, now) = 0
        /\ getMe(users, jwt, now).status = 200
        /\ \A v \in Tokens \cup {NoToken} :
             protect(LogoutOf(i, v).users, jwt, now) = 0
        /\ protect(logoutAll(users, TokenOf(i), now).users, jwt, now) = 0
        /\ \A cur \in Passwords : \A new \in Passwords :
             protect(updatePassword(users, TokenOf(i), cur, new, now).users,
                     jwt, now) = 0
        /\ \A c \in Tokens : \A p \in Passwords :
             protect(ResetOf(c, p).users, jwt, now) = 0

\* C23 witness: the account has logged out everywhere (a token was revoked,
\* none is left) and changed its password, time has passed, and an access
\* token signed at the first tick is accepted
C23_Witness ==
    \E i \in DOMAIN users :
      /\ \E t \in Tokens : fate[t] = "revoked"
      /\ users[i].refreshTokens = {}
      /\ users[i].password # bcryptHash(1)
      /\ now > 1
      /\ getMe(users, getSignedJwtToken(i, 1), now).status = 200

\* ---------------- likes (SpecToggle) ----------------

\* the users who like post id
Likers(id) == {l.user : l \in posts[id].likes}

\* the like request of user u on post id, run on the posts pdb
LikeOf(pdb, u, id) == likePost(users, pdb, TokenOf(u), id, now)

ReadsOf(i) ==
    {users[i]} \cup {inflight[c].read :
                       c \in {d \in Clients : /\ inflight[d].op = "login"
                                              /\ inflight[d].id = i}}

\* C25 as stated: whatever the interleaving of failed logins, an account
\* whose stored counter is at least MAX_LOGIN_ATTEMPTS carries a lockUntil
\* (a running or an expired lock).
C25_CounterImpliesLock ==
    \A i \in DOMAIN users :
      users[i].loginAttempts >= MAX_LOGIN_ATTEMPTS =>
        users[i].lockUntil # NoDate

\* C25, amended: the stored counter may pass MAX_LOGIN_ATTEMPTS without a
\* lock when failed logins overlap, but the lock is at most one failed login
\* away: a failed login that has read a counter of MAX_LOGIN_ATTEMPTS - 1 or
\* more (and no expired lock) writes lockUntil = now + LOCKOUT_TIME and adds
\* one to the stored counter, whatever was written since it read.
C25_NextFailureLocks ==
    \A i \in DOMAIN users : \A read \in ReadsOf(i) :
      \A p \in WrongPasswords(read) :
        (read.loginAttempts + 1 >= MAX_LOGIN_ATTEMPTS /\ ~LockExpired(read))
          => LET after == loginWrite(users, i, read, p, nextToken, now)
             IN /\ after.status = 401
                /\ after.users[i].lockUntil = now + LOCKOUT_TIME
                /\ after.users[i].loginAttempts = users[i].loginAttempts + 1

\* C25 witness: overlapping failed logins have left the stored counter at
\* MAX_LOGIN_ATTEMPTS without a lock, and the next failed login sets it
C25_Witness ==
    \E i \in DOMAIN users :
      /\ users[i].loginAttempts >= MAX_LOGIN_ATTEMPTS
      /\ users[i].lockUntil = NoDate
      /\ \E p \in WrongPasswords(users[i]) :
           loginWrite(users, i, users[i], p, nextToken, now).users[i].lockUntil
             = now + LOCKOUT_TIME

\* the suspended refresh-token requests whose token another request has
\* redeemed since they read the account
Overrun ==
    {c \in Clients : /\ inflight[c].op = "refresh"
                     /\ fate[inflight[c].token] = "redeemed"}

\* C26: of the refresh-token requests that interleave on one token at most
\* one succeeds: once a request has redeemed the token, every request that
\* looked the account up with the same token before that save fails without
\* writing, so one refresh token yields at most one new pair of tokens.
C26_OneRedemptionPerToken ==
    \A c \in Overrun :
      LET r == refreshWrite(users, inflight[c].id, inflight[c].read,
                            inflight[c].token, nextToken, now)
      IN /\ r.status # 200
         /\ r.refreshToken = NoToken
         /\ ~r.accessToken
         /\ r.users = users

\* C26 witness: two requests read the account with the same token, one has
\* saved and the other is still suspended
C26_Witness ==
    \E c \in Overrun :
      /\ inflight[c].token \in TokensOf(inflight[c].read)
      /\ inflight[c].token \notin TokensOf(users[inflight[c].id])

\* ---------------- locks that are renewed (SpecLockout) ----------------

\* the accounts that are locked now
Locked == {i \in DOMAIN users : isLocked(users[i], now)}

Inactive == {i \in DOMAIN users : ~users[i].isActive}

\* C28: an account that is not active gets no tokens: a login with its right
\* password is not answered 200, no unexpired refresh token of it is
\* redeemed, and its access tokens are refused by protect.
C28_InactiveGetsNoTokens ==
    \A i \in Inactive :
      /\ \A p \in RightPasswords(users[i]) :
           /\ LoginOf(i, p).status # 200
           /\ ~LoginOf(i, p).accessToken
      /\ \A T \in Tokens :
           i \in HoldersOf(T) =>
             /\ RedeemOf(T).status # 200
             /\ ~RedeemOf(T).accessToken
      /\ protect(users, TokenOf(i), now) = 401

\* ---------------- password change (SpecChange) ----------------

\* the updatePassword request of account i with its own access token
ChangeOf(i, cur, new) == updatePassword(users, TokenOf(i), cur, new, now)

\* C29: updatePassword with the right current password is answered 200 and
\* writes the digest of the new password and nothing else: the refresh
\* tokens, the login counter and the lock expiry of the account are as
\* before, and every refresh token that was redeemable before is redeemable
\* after.  With a wrong current password it is answered 401 and writes
\* nothing.
C29_PasswordChangeFrame ==
    \A i \in DOMAIN users : \A cur \in Passwords : \A new \in Passwords :
      users[i].isActive =>
        LET r == ChangeOf(i, cur, new) IN
        IF cur \in RightPasswords(users[i])
        THEN /\ r.status = 200
             /\ r.users = [users EXCEPT ![i].password = r.users[i].password]
             /\ matchPassword(r.users[i], new)
             /\ \A q \in Passwords \ {new} : ~matchPassword(r.users[i], q)
             /\ r.users[i].refreshTokens = users[i].refreshTokens
             /\ r.users[i].loginAttempts = users[i].loginAttempts
             /\ r.users[i].lockUntil = users[i].lockUntil
             /\ \A T \in Tokens :
                  RedeemOf(T).status = 200 =>
                    refreshToken(r.users, T, nextToken, now).status = 200
        ELSE /\ r.status = 401
             /\ r.users = users

\* C29 witness: an account with failed logins counted, a lock and a
\* redeemable refresh token changes its password to another one and keeps
\* all three
C29_Witness ==
    \E i \in DOMAIN users : \E cur \in RightPasswords(users[i]) :
      \E new \in Passwords \ {cur} :
        /\ users[i].loginAttempts > 0
        /\ users[i].lockUntil # NoDate
        /\ \E T \in Tokens : i \in HoldersOf(T) /\ RedeemOf(T).status = 200
        /\ ChangeOf(i, cur, new).status = 200
        /\ ChangeOf(i, cur, new).users[i].refreshTokens # {}
        /\ \E w \in WrongPasswords(users[i]) :
             ChangeOf(i, w, new).status = 401

\* ---------------- the rate limiter of the login route (SpecLockout) -------

\* the keys of the limiter: the addresses that send logins and one that has
\* sent none
RateKeys == Ips \cup {"10.0.0.2"}

\* the window of key is open and has admitted LOGIN_RATE_MAX requests
Exhausted(key) ==
    /\ key \in DOMAIN attempts
    /\ attempts[key].count >= LOGIN_RATE_MAX
    /\ now <= attempts[key].resetTime

====
